---- MODULE Spec2Model ----
(***************************************************************************)
(* Model of the video-job status reconciliation in the AssetLibrary        *)
(* component (src/components/inventory/assets/AssetLibrary.tsx).           *)
(*                                                                         *)
(* A JS string the code inspects (asset_url, description, a video id, a    *)
(* result URL) is modelled as the sequence of its characters, so that      *)
(* startsWith, replace and the video_id regular expression are computed    *)
(* character by character.  A text the code only passes on (a message) is  *)
(* a sequence of one element, the text.  The JS value null/undefined is    *)
(* the reserved value Null.  Each asynchronous handler invocation is a     *)
(* process whose position pc moves at every await.                         *)
(***************************************************************************)
EXTENDS Naturals, Sequences, FiniteSets

\* Number of invocations of handleRefreshVideo that may be in flight or finished.
MaxChecks == 2

Checks == 1 .. MaxChecks

\* Asset ids present in the Job Record Store.
Ids == {"a1", "a2"}

\* JS null / undefined.
Null == <<"<null>">>

\* The empty JS string ''.
Empty == <<>>

\* JS truthiness of a string-or-null value.
Truthy(v) == v # Null /\ v # Empty

\* a || b on string-or-null values.
OrElse(a, b) == IF Truthy(a) THEN a ELSE b

\* s.startsWith(prefix)
StartsWith(s, prefix) ==
    /\ s # Null
    /\ Len(s) >= Len(prefix)
    /\ SubSeq(s, 1, Len(prefix)) = prefix

\* The positions at which sub occurs in s.
Occurrences(s, sub) ==
    {i \in 1 .. (Len(s) + 1 - Len(sub)) : SubSeq(s, i, i + Len(sub) - 1) = sub}

\* s.replace(sub, ''): the first occurrence of sub removed.
ReplaceFirst(s, sub) ==
    LET occ == Occurrences(s, sub)
    IN  IF occ = {} THEN s
        ELSE LET i == CHOOSE k \in occ : \A m \in occ : k <= m
             IN  SubSeq(s, 1, i - 1) \o SubSeq(s, i + Len(sub), Len(s))

Lowers ==
    {"a", "b", "c", "d", "e", "f", "g", "h", "i", "j", "k", "l", "m",
     "n", "o", "p", "q", "r", "s", "t", "u", "v", "w", "x", "y", "z"}

Uppers ==
    {"A", "B", "C", "D", "E", "F", "G", "H", "I", "J", "K", "L", "M",
     "N", "O", "P", "Q", "R", "S", "T", "U", "V", "W", "X", "Y", "Z"}

Digits == {"0", "1", "2", "3", "4", "5", "6", "7", "8", "9"}

\* The characters \w matches: [A-Za-z0-9_].
WordChars == Lowers \cup Uppers \cup Digits \cup {"_"}

\* video_id, the literal part of the regular expression, and the upper-case
\* spelling the i flag accepts for each of its characters.
VideoIdKeyword == <<"v", "i", "d", "e", "o", "_", "i", "d">>

VideoIdKeywordUpper == <<"V", "I", "D", "E", "O", "_", "I", "D">>

\* ch matches the k-th character of the literal under the i flag.
MatchesKeywordAt(ch, k) == ch = VideoIdKeyword[k] \/ ch = VideoIdKeywordUpper[k]

\* [:_]
IsSeparator(ch) == ch \in {":", "_"}

\* description.match(/video_id[:_](\w+)/i): the first capture group of the
\* leftmost match (\w+ is greedy: the maximal run of word characters), or
\* Null without a match.
MatchVideoId(d) ==
    LET n == Len(VideoIdKeyword)
        Starts == {i \in 1 .. (Len(d) - n - 1) :
                      /\ IsSeparator(d[i + n])
                      /\ d[i + n + 1] \in WordChars
                      /\ \A k \in 1 .. n : MatchesKeywordAt(d[i + k - 1], k)}
    IN  IF Starts = {} THEN Null
        ELSE LET i == CHOOSE k \in Starts : \A m \in Starts : k <= m
                 e == CHOOSE k \in (i + n + 1) .. Len(d) :
                          /\ \A m \in (i + n + 1) .. k : d[m] \in WordChars
                          /\ (k = Len(d) \/ d[k + 1] \notin WordChars)
             IN  SubSeq(d, i + n + 1, e)

\* The literals the code compares an asset_url with.
PendingPrefix == <<"p", "e", "n", "d", "i", "n", "g", "_">>

Pending == <<"p", "e", "n", "d", "i", "n", "g">>

Processing == <<"p", "r", "o", "c", "e", "s", "s", "i", "n", "g">>

Failed == <<"f", "a", "i", "l", "e", "d">>

\* The extraction of the provider's video id from an asset.
ExtractVideoId(asset) ==
    IF asset.asset_url # Null /\ asset.asset_url # Empty
          /\ StartsWith(asset.asset_url, PendingPrefix)
    THEN ReplaceFirst(asset.asset_url, PendingPrefix)
    ELSE IF Truthy(asset.description)
         THEN MatchVideoId(asset.description)
         ELSE Null

\* The in-flight predicate of the progress tracker.
IsInFlightUrl(u) ==
    u = Processing \/ u = Pending \/ StartsWith(u, PendingPrefix)

\* The job states of a record's status field.
IsTerminal(s) == s \in {"completed", "failed"}

IsInFlight(s) == s \in {"pending", "processing"}

\* The result URLs the provider reports.
\* https://y/f
FinalUrl == <<"h", "t", "t", "p", "s", ":", "/", "/", "y", "/", "f">>

VideoUrls == {FinalUrl}

\* The location a video card plays as the record's result: the asset_url
\* unless it is 'processing', 'pending', 'failed' or empty.
ResultLocation(rec) ==
    IF \/ rec.asset_url = Processing
       \/ rec.asset_url = Pending
       \/ rec.asset_url = Failed
       \/ ~Truthy(rec.asset_url)
    THEN Null
    ELSE rec.asset_url

\* A video asset of the HeyGen provider.
Rec(status, url, desc) ==
    [status |-> status, asset_url |-> url, description |-> desc,
     source_system |-> "heygen"]

\* The video ids v1 and v2, and the texts of the descriptions.
V1 == <<"v", "1">>

V2 == <<"v", "2">>

\* 'ad video_id:v1'
PromoWithId == <<"a", "d", " ", "v", "i", "d", "e", "o", "_", "i", "d", ":", "v", "1">>

\* 'video_id:v1'
IdOnly == <<"v", "i", "d", "e", "o", "_", "i", "d", ":", "v", "1">>

\* 'VIDEO_ID_v2'
UpperId == <<"V", "I", "D", "E", "O", "_", "I", "D", "_", "v", "2">>

\* 'ad clip'
PromoClip == <<"a", "d", " ", "c", "l", "i", "p">>

\* https://x/v
StoredUrl == <<"h", "t", "t", "p", "s", ":", "/", "/", "x", "/", "v">>

\* Records the generation-submission flow and earlier reconciliations leave
\* in the store: in flight with the id in the sentinel, with the id in the
\* description only, with no id at all, with an empty sentinel; and terminal.
PendingSentinel == Rec("pending", PendingPrefix \o V1, Null)

PendingDescribed == Rec("pending", Pending, PromoWithId)

PendingNoId == Rec("pending", Pending, PromoClip)

PendingEmptySentinel == Rec("pending", PendingPrefix, UpperId)

ProcessingDescribed == Rec("processing", Processing, UpperId)

CompletedDescribed == Rec("completed", StoredUrl, IdOnly)

CompletedPlain == Rec("completed", StoredUrl, Null)

FailedSentinel == Rec("failed", PendingPrefix \o V1, Null)

\* The stores the model starts from: every kind of record above is some
\* asset of some store.
InitStores ==
    { [a1 |-> PendingSentinel, a2 |-> PendingNoId],
      [a1 |-> PendingDescribed, a2 |-> CompletedDescribed],
      [a1 |-> ProcessingDescribed, a2 |-> CompletedPlain],
      [a1 |-> PendingEmptySentinel, a2 |-> FailedSentinel] }

VARIABLES
    store,      \* Job Record Store: id -> record
    assets,     \* React state `assets`: id -> record, for the ids in the list
    pc,         \* position of each handleRefreshVideo invocation
    job,        \* its assetId argument
    snap,       \* the asset it found in `assets`
    videoId,    \* the video id it extracted
    resp,       \* the provider reply it received
    calls,      \* API requests and state-setter calls it issued, in order
    toasts,     \* toasts it showed, in order
    stored,     \* the record the store held right after applying its update
    upd,        \* the reply updateAsset received to its request
    now,            \* Date.now(), in milliseconds
    progressStates, \* React state `progressStates`: key -> number
    timers,         \* the intervals set and not yet cleared
    armed,          \* the interval the latest run of the progress effect set
    effectDue,      \* a render is committed whose progress effect has not run
    batch,          \* per invocation: the batch the recovery endpoint ran for it
    ticked,         \* per asset, the clock reads of its first and latest tick
    closure,        \* the `assets` a favourite or delete handler closed over
    rows            \* the rows read for each getLibraryAssets not yet answered

vars == <<store, assets, pc, job, snap, videoId, resp, calls, toasts, stored,
          upd, batch, now, progressStates, timers, armed, effectDue, ticked,
          closure, rows>>

\* The value of a handler's local before it is assigned.
NoAsset ==
    [status |-> "none", asset_url |-> Null, description |-> Null,
     source_system |-> "none"]

NoReply ==
    [throws |-> FALSE, success |-> FALSE, error |-> Null, status |-> "none",
     videoUrl |-> Null, errorMessage |-> Null]

\* The value of `upd` before updateAsset received a reply.
NoUpdateReply == [throws |-> FALSE, success |-> FALSE, error |-> <<"<none>">>]

\* toast({title, description, variant})
Toast(t, d, v) == [title |-> t, description |-> d, variant |-> v]

\* A request to an API client method, or a call of the state setter.
Call(api, arg) == [api |-> api, arg |-> arg]

\* The updates object of the completed branch.
CompletedUpdates(videoUrl) == [url |-> videoUrl, status |-> "completed"]

\* The updates object of the failed branch.
FailedUpdates == [status |-> "failed"]

\* { ...asset, ...updates }
Spread(asset, updates) ==
    [k \in (DOMAIN asset) \cup (DOMAIN updates) |->
        IF k \in DOMAIN updates THEN updates[k] ELSE asset[k]]

\* prevAssets.map(asset => asset.id === assetId ? {...asset, ...updates} : asset)
MergeLocal(prev, assetId, updates) ==
    [a \in DOMAIN prev |->
        IF a = assetId THEN Spread(prev[a], updates) ELSE prev[a]]

\* The Job Record Store's update(jobId, fields): url is the record's
\* location field, status its state.
StoreApply(st, assetId, updates) ==
    [st EXCEPT ![assetId] =
        [status |-> IF "status" \in DOMAIN updates
                    THEN updates.status ELSE @.status,
         asset_url |-> IF "url" \in DOMAIN updates
                       THEN updates.url ELSE @.asset_url,
         description |-> @.description,
         source_system |-> @.source_system]]

\* What the provider's status endpoint can answer (templatesAPI.heygen.getStatus).
StatusReply(throws, success, error, status, videoUrl, errorMessage) ==
    [throws |-> throws, success |-> success, error |-> error, status |-> status,
     videoUrl |-> videoUrl, errorMessage |-> errorMessage]

StatusReplies ==
    {StatusReply(TRUE, FALSE, <<"Request failed with status code 503">>,
                 "none", Null, Null),
     StatusReply(FALSE, FALSE, Null, "none", Null, Null)}
    \cup {StatusReply(FALSE, TRUE, Null, "completed", u, Null) :
             u \in VideoUrls \cup {Null}}
    \cup {StatusReply(FALSE, TRUE, Null, "failed", Null, m) :
             m \in {Null, <<"quota exceeded">>}}
    \cup {StatusReply(FALSE, TRUE, Null, "processing", Null, Null)}

\* What assetsAPI.updateAsset can answer.
UpdateReplies ==
    {[throws |-> TRUE, success |-> FALSE, error |-> <<"Network Error">>]}
    \cup {[throws |-> FALSE, success |-> FALSE, error |-> Null]}
    \cup {[throws |-> FALSE, success |-> TRUE, error |-> Null]}

\* The await of getStatus returned and response.data.success is set.
StatusOk(r) == ~r.throws /\ r.success

\* Classify with every reply that is not a completion taken as a failure.
ClassifyElseFailed(r) ==
    IF r.status = "completed" /\ Truthy(r.videoUrl) THEN "completed"
    ELSE "failed"

\* Classify without the test of the result URL.
ClassifyIgnoringUrl(r) ==
    IF r.status = "completed" THEN "completed"
    ELSE IF r.status = "failed" THEN "failed"
    ELSE "still"

\* The branch handleRefreshVideo takes on a successful status reply.
Classify(r) ==
    IF r.status = "completed" /\ Truthy(r.videoUrl) THEN "completed"
    ELSE IF r.status = "failed" THEN "failed"
    ELSE "still"

\* UpdateAccepted without the test of response.data.success.
UpdateAcceptedIgnoringSuccess(u) == ~u.throws

\* The await of assetsAPI.updateAsset returned and response.data.success is set.
UpdateAccepted(u) == ~u.throws /\ u.success

\* Catch rethrowing, as the catch block of updateAsset does: the handler's
\* promise rejects.
CatchRethrows(c, ts, err) ==
    /\ pc' = [pc EXCEPT ![c] = "thrown"]
    /\ toasts' = [toasts EXCEPT ![c] = ts]

\* The catch block of handleRefreshVideo: a destructive toast, and the
\* handler's promise resolves.  ts are the toasts shown so far.
Catch(c, ts, err) ==
    /\ pc' = [pc EXCEPT ![c] = "done"]
    /\ toasts' = [toasts EXCEPT ![c] =
          Append(ts, Toast("Failed to Get Video Status",
                           OrElse(err, <<"Could not retrieve video status from HeyGen.">>),
                           "destructive"))]

\* JS undefined, as a returned value.
Undefined == <<"<undefined>">>

\* A promise that has not resolved has no value.
Unsettled == <<"<unsettled>">>

\* What the promise of handleRefreshVideo resolves with: every path of the
\* handler ends in `return;` or at the end of its body.
ReturnValue(c) == IF pc[c] = "done" THEN Undefined ELSE Unsettled

\* const totalDuration = 300, in seconds.
TotalDuration == 300

\* const targetProgress = 92, in percent.
TargetProgress == 92

\* The delay of setInterval, in milliseconds.
IntervalMs == 5000

\* A progress value p percent is held as the whole number
\* p * TotalDuration * 1000: a clock read in milliseconds gives exactly one.
ProgressUnit == TotalDuration * 1000

Min(a, b) == IF a <= b THEN a ELSE b

\* NewProgress without the clamp at the target.
NewProgressUnclamped(elapsedMs) == elapsedMs * TargetProgress

\* newProgress for elapsedTime = elapsedMs / 1000 seconds.
NewProgress(elapsedMs) ==
    IF elapsedMs >= TotalDuration * 1000
    THEN TargetProgress * ProgressUnit
    ELSE Min(TargetProgress * ProgressUnit, elapsedMs * TargetProgress)

\* The keys of progressStates: asset.id and `${asset.id}_startTime`.
ProgressKey(a) == <<a>>

StartTimeKey(a) == <<a, "_startTime">>

\* states[key] || dflt: a missing key reads undefined, and 0 is falsy too.
ReadOr(states, key, dflt) ==
    IF key \in DOMAIN states /\ states[key] # 0 THEN states[key] ELSE dflt

\* processingVideos: the ids of the assets the progress tracker follows.
ProcessingVideos(list) ==
    {a \in DOMAIN list : IsInFlightUrl(list[a].asset_url)}

\* The position of an asset in the list.
Rank(a) == IF a = "a1" THEN 1 ELSE 2

\* The interval an effect run sets at time t for the videos it filtered.
Interval(processing, t) ==
    [processing |-> processing, setAt |-> t, dueAt |-> t + IntervalMs]

\* `interval`, the handle the effect run keeps of the interval it set.
Handle(h) == <<h.processing, h.setAt>>

\* The handle of an effect run that returned before setInterval.
NoInterval == << >>

\* An effect without the cleanup function.
CleanupMissing(ts, handle) == ts

\* The cleanup of the previous effect run: clearInterval of the interval
\* that run set (a run that set none returned no cleanup).
Cleanup(ts, handle) == {h \in ts : Handle(h) # handle}

\* A run of the progress effect at time t: the previous run's cleanup, then
\* the effect body on the list of the render.
RunEffect(ts, handle, list, t) ==
    IF ProcessingVideos(list) = {}
    THEN Cleanup(ts, handle)
    ELSE Cleanup(ts, handle) \cup {Interval(ProcessingVideos(list), t)}

\* The handle the effect run at time t keeps.
Armed(list, t) ==
    IF ProcessingVideos(list) = {}
    THEN NoInterval
    ELSE Handle(Interval(ProcessingVideos(list), t))

\* The loadAssets call of the mount effect, beside those of the handlers.
Mount == 0

\* loadAssets up to its await: getLibraryAssets is requested by p and the
\* backend reads the rows.
Requests(p, data) == rows' = [rows EXCEPT ![p] = data]

\* loadAssets after its await: the answer to p's request has been consumed.
Received(p) == rows' = [rows EXCEPT ![p] = << >>]

\* What is left alone by a handler step that sets neither `assets` nor
\* `progressStates`.
NoRender ==
    UNCHANGED <<now, progressStates, timers, armed, effectDue, ticked, closure>>

\* A handler step that set `assets`: the component will render with the new
\* list, and React runs the progress effect after that render, not in the
\* setter.
RenderAssets ==
    /\ effectDue' = TRUE
    /\ UNCHANGED <<now, progressStates, timers, armed, ticked, closure>>

\* React runs the progress effect of the latest render: the cleanup of the
\* previous run, then the effect body.
ProgressEffect ==
    /\ effectDue
    /\ timers' = RunEffect(timers, armed, assets, now)
    /\ armed' = Armed(assets, now)
    /\ effectDue' = FALSE
    /\ UNCHANGED <<store, assets, pc, job, snap, videoId, resp, calls, toasts,
                   stored, upd, batch, now, progressStates, ticked, closure, rows>>

\* The recovery endpoint has not run a batch for the invocation.
NoBatch == [ran |-> FALSE, provider |-> << >>, data |-> << >>]

\* The state at mount: nothing loaded, no handler running.
InitView ==
    /\ assets = << >>
    /\ pc = [c \in Checks |-> "idle"]
    /\ job = [c \in Checks |-> "none"]
    /\ snap = [c \in Checks |-> NoAsset]
    /\ videoId = [c \in Checks |-> Null]
    /\ resp = [c \in Checks |-> NoReply]
    /\ calls = [c \in Checks |-> << >>]
    /\ toasts = [c \in Checks |-> << >>]
    /\ stored = [c \in Checks |-> NoAsset]
    /\ upd = [c \in Checks |-> NoUpdateReply]
    /\ batch = [c \in Checks |-> NoBatch]
    /\ now = 0
    /\ progressStates = << >>
    /\ timers = {}
    /\ armed = NoInterval
    /\ effectDue = FALSE
    /\ ticked = << >>
    /\ closure = [c \in Checks |-> << >>]
    /\ rows = [p \in {Mount} \cup Checks |-> IF p = Mount THEN store ELSE << >>]

Init ==
    /\ store \in InitStores
    /\ InitView

\* One store with a job whose id is extractable and a job without an id.
InitPending ==
    /\ store = [a1 |-> PendingSentinel, a2 |-> PendingNoId]
    /\ InitView

\* loadAssets of the mount effect, from the answer of getLibraryAssets on.
\* The request is made at mount; no handler can write the store before the
\* list is loaded, so the rows are those of the initial store.
LoadAssets ==
    /\ rows[Mount] # << >>
    /\ assets' = rows[Mount]
    /\ Received(Mount)
    /\ RenderAssets
    /\ UNCHANGED <<store, pc, job, snap, videoId, resp, calls, toasts, stored, upd, batch>>

\* handleRefreshVideo(assetId) up to its first await.  Invocations are
\* numbered in the order they start.
Invoke(c, assetId) ==
    /\ pc[c] = "idle"
    /\ \A d \in Checks : d < c => pc[d] # "idle"
    /\ job' = [job EXCEPT ![c] = assetId]
    /\ LET ts == Append(toasts[c],
                   Toast("Checking Video Status",
                         <<"Getting latest video status from HeyGen...">>, "default"))
       IN  IF assetId \notin DOMAIN assets
           THEN /\ Catch(c, ts, <<"Asset not found">>)
                /\ UNCHANGED <<snap, videoId, calls>>
           ELSE LET asset == assets[assetId]
                    vid == ExtractVideoId(asset)
                IN  /\ snap' = [snap EXCEPT ![c] = asset]
                    /\ videoId' = [videoId EXCEPT ![c] = vid]
                    /\ toasts' = [toasts EXCEPT ![c] = ts]
                    /\ IF ~Truthy(vid)
                       THEN /\ calls' = [calls EXCEPT ![c] =
                                   Append(@, Call("recoverPending", Null))]
                            /\ pc' = [pc EXCEPT ![c] = "recover"]
                       ELSE /\ calls' = [calls EXCEPT ![c] =
                                   Append(@, Call("getStatus", vid))]
                            /\ pc' = [pc EXCEPT ![c] = "status"]
    /\ NoRender
    /\ UNCHANGED <<store, assets, resp, stored, upd, batch, rows>>

\* handleRefreshVideo from the answer of getStatus to its next await.
OnStatus(c, r) ==
    /\ pc[c] = "status"
    /\ resp' = [resp EXCEPT ![c] = r]
    /\ IF ~StatusOk(r)
       THEN /\ Catch(c, toasts[c],
                     IF r.throws THEN r.error
                     ELSE OrElse(r.error, <<"Failed to get video status">>))
            /\ UNCHANGED <<calls, rows>>
       ELSE IF Classify(r) = "completed"
       THEN /\ calls' = [calls EXCEPT ![c] =
                   Append(@, Call("updateAsset", CompletedUpdates(r.videoUrl)))]
            /\ pc' = [pc EXCEPT ![c] = "update"]
            /\ UNCHANGED <<toasts, rows>>
       ELSE IF Classify(r) = "failed"
       THEN /\ calls' = [calls EXCEPT ![c] =
                   Append(@, Call("updateAsset", FailedUpdates))]
            /\ pc' = [pc EXCEPT ![c] = "update"]
            /\ UNCHANGED <<toasts, rows>>
       ELSE /\ toasts' = [toasts EXCEPT ![c] =
                   Append(@, Toast("Still Processing",
                          <<"Video is still being generated. Please wait.">>,
                          "default"))]
            /\ calls' = [calls EXCEPT ![c] =
                   Append(@, Call("getLibraryAssets", Null))]
            /\ Requests(c, store)
            /\ pc' = [pc EXCEPT ![c] = "reload"]
    /\ NoRender
    /\ UNCHANGED <<store, assets, job, snap, videoId, stored, upd, batch>>

\* AfterUpdateToast without the default failure message.
AfterUpdateToastNoDefault(r) ==
    IF r.status = "completed" /\ Truthy(r.videoUrl)
    THEN Toast("Video Ready",
               <<"Video has been completed and is now available for download.">>,
               "default")
    ELSE Toast("Video Failed", r.errorMessage, "destructive")

\* The toast of the branch that called updateAsset, shown once it resolved.
\* (The titles carry an emoji in the source.)
AfterUpdateToast(r) ==
    IF Classify(r) = "completed"
    THEN Toast("Video Ready",
               <<"Video has been completed and is now available for download.">>,
               "default")
    ELSE Toast("Video Failed",
               OrElse(r.errorMessage, <<"Video generation failed.">>),
               "destructive")

\* The Job Record Store handles the update request of invocation c: it
\* applies the update (ok) or not.  A request that never reaches the store
\* is not applied either.
StoreUpdate(c, ok) ==
    /\ pc[c] = "update"
    /\ ok => job[c] \in DOMAIN store
    /\ LET updates == calls[c][Len(calls[c])].arg
           after == IF ok THEN StoreApply(store, job[c], updates) ELSE store
       IN  /\ store' = after
           /\ stored' = IF ok THEN [stored EXCEPT ![c] = after[job[c]]] ELSE stored
    /\ pc' = [pc EXCEPT ![c] = "reply"]
    /\ NoRender
    /\ UNCHANGED <<assets, job, snap, videoId, resp, upd, batch, calls, toasts, rows>>

\* The replies that can follow what the store did with the update of
\* invocation c: success exactly when it applied the update, and a thrown
\* reply (a network error) in either case.
CanAnswer(c, u) == ~u.throws => (u.success <=> stored[c] # NoAsset)

\* updateAsset from the answer of assetsAPI.updateAsset to its return or
\* throw: setAssets on success, else the error is logged and thrown again.
OnUpdate(c, u) ==
    /\ pc[c] = "reply"
    /\ CanAnswer(c, u)
    /\ upd' = [upd EXCEPT ![c] = u]
    /\ IF UpdateAccepted(u)
       THEN /\ assets' = MergeLocal(assets, job[c], calls[c][Len(calls[c])].arg)
            /\ RenderAssets
            /\ calls' = [calls EXCEPT ![c] = Append(@, Call("setAssets", Null))]
            /\ pc' = [pc EXCEPT ![c] = "resolved"]
       ELSE /\ pc' = [pc EXCEPT ![c] = "rejected"]
            /\ NoRender
            /\ UNCHANGED <<assets, calls>>
    /\ UNCHANGED <<store, job, snap, videoId, resp, toasts, stored, batch, rows>>

\* The error updateAsset throws for the reply u.
UpdateError(u) ==
    IF u.throws THEN u.error ELSE OrElse(u.error, <<"Failed to update asset">>)

\* handleRefreshVideo resumes after `await updateAsset(...)` resolved: the
\* toast of its branch, then loadAssets up to its await.
AfterUpdate(c) ==
    /\ pc[c] = "resolved"
    /\ toasts' = [toasts EXCEPT ![c] = Append(@, AfterUpdateToast(resp[c]))]
    /\ calls' = [calls EXCEPT ![c] = Append(@, Call("getLibraryAssets", Null))]
    /\ Requests(c, store)
    /\ pc' = [pc EXCEPT ![c] = "reload"]
    /\ NoRender
    /\ UNCHANGED <<store, assets, job, snap, videoId, resp, upd, batch, stored>>

\* handleRefreshVideo resumes after `await updateAsset(...)` rejected: its
\* catch block.
OnUpdateThrown(c) ==
    /\ pc[c] = "rejected"
    /\ Catch(c, toasts[c], UpdateError(upd[c]))
    /\ NoRender
    /\ UNCHANGED <<store, assets, job, snap, videoId, resp, upd, batch, calls, stored,
                   rows>>

\* What getLibraryAssets can answer: the rows, or a rejection.
LoadReplies == {"rows", "throws"}

\* loadAssets at the end of handleRefreshVideo, from the answer of
\* getLibraryAssets on.
OnReload(c, l) ==
    /\ pc[c] = "reload"
    /\ Received(c)
    /\ IF l = "rows"
       THEN /\ assets' = rows[c]
            /\ RenderAssets
            /\ calls' = [calls EXCEPT ![c] = Append(@, Call("setAssets", Null))]
            /\ pc' = [pc EXCEPT ![c] = "done"]
            /\ UNCHANGED toasts
       ELSE /\ Catch(c, toasts[c], <<"Failed to load assets">>)
            /\ NoRender
            /\ UNCHANGED <<assets, calls>>
    /\ UNCHANGED <<store, job, snap, videoId, resp, stored, upd, batch>>

\* What the provider's status call answers for one job inside the batch of
\* the recovery endpoint.
BatchAnswers == {"completed", "failed", "processing", "throws"}

\* BatchOutcome with a transient failure of the status call taken as the
\* failure of the job.
BatchOutcomeThrowIsFailure(answer) ==
    IF answer = "processing" THEN "still"
    ELSE IF answer = "throws" THEN "failed"
    ELSE answer

\* The outcome the batch records for one job: a transient failure of its
\* status call is recorded as retryable and the batch goes on.
BatchOutcome(answer) ==
    IF answer = "throws" THEN "retryable"
    ELSE IF answer = "processing" THEN "still"
    ELSE answer

\* The jobs the batch of templatesAPI.heygen.recoverPending checks: the
\* non-terminal records of the provider that carry an external id.
BatchJobs(st) ==
    {a \in DOMAIN st :
        /\ IsInFlight(st[a].status)
        /\ st[a].source_system = "heygen"
        /\ Truthy(ExtractVideoId(st[a]))}

\* The state the single-job logic writes for an outcome: Completed, Failed,
\* Processing for a Pending job that is still in progress, else no change.
BatchNewState(rec, outcome) ==
    IF outcome \in {"completed", "failed"} THEN outcome
    ELSE IF outcome = "still" /\ rec.status = "pending" THEN "processing"
    ELSE rec.status

\* The result entry of one job: {previousState, newState, updated}, and the
\* outcome it stands for.
BatchResult(rec, answer) ==
    LET outcome == BatchOutcome(answer)
        newState == BatchNewState(rec, outcome)
    IN  [outcome |-> outcome, previousState |-> rec.status,
         newState |-> newState, updated |-> newState # rec.status]

\* response.data.data of recoverPending when the provider answered g.
BatchResults(st, g) == [a \in DOMAIN g |-> BatchResult(st[a], g[a])]

\* The store after the batch: every job whose state changed has its new
\* state, and a completed one its result location.
RecoverStore(st, data) ==
    [a \in DOMAIN st |->
        IF a \in DOMAIN data /\ data[a].updated
        THEN [st[a] EXCEPT !.status = data[a].newState,
                           !.asset_url = IF data[a].newState = "completed"
                                         THEN StoredUrl ELSE @]
        ELSE st[a]]

\* r.updated of a result entry.
Updated(r) == r.updated

\* n as it is printed in a template literal.
NumToken(n) == <<"0", "1", "2", "3", "4">>[n + 1]

\* The recovery endpoint handles the recoverPending request of invocation
\* c: it runs its batch, the provider answering g for the jobs, and writes
\* the transitions to the Job Record Store.
RecoverPending(c, g) ==
    /\ pc[c] \in {"recover", "bulk"}
    /\ pc' = [pc EXCEPT ![c] = IF @ = "recover" THEN "recovered" ELSE "bulked"]
    /\ LET data == BatchResults(store, g)
       IN  /\ store' = RecoverStore(store, data)
           /\ batch' = [batch EXCEPT ![c] =
                  [ran |-> TRUE, provider |-> g, data |-> data]]
    /\ NoRender
    /\ UNCHANGED <<assets, job, snap, videoId, resp, calls, toasts, stored, upd,
                   rows>>

\* What templatesAPI.heygen.recoverPending can answer, besides its results.
RecoverFailures ==
    {[throws |-> TRUE, success |-> FALSE, error |-> <<"Network Error">>]}
    \cup {[throws |-> FALSE, success |-> FALSE, error |-> Null]}

\* The failures that can follow what the endpoint did with the request of
\* invocation c: success = false when it ran no batch, and a thrown reply (a
\* network error) in either case.
CanFail(c, r) == batch[c].ran => r.throws

\* handleRefreshVideo without a video id: a failed recoverPending.
OnRecoverFailed(c, r) ==
    /\ pc[c] \in {"recover", "recovered"}
    /\ CanFail(c, r)
    /\ IF r.throws
       THEN Catch(c, toasts[c], r.error)
       ELSE Catch(c, toasts[c], OrElse(r.error, <<"Recovery failed">>))
    /\ NoRender
    /\ UNCHANGED <<store, assets, job, snap, videoId, resp, calls, stored, upd,
                   batch, rows>>

\* handleRefreshVideo without a video id: recoverPending answered with the
\* results of its batch, up to the await of loadAssets.
OnRecovered(c) ==
    /\ pc[c] = "recovered"
    /\ LET data == batch[c].data
       IN  toasts' = [toasts EXCEPT ![c] =
              Append(@, Toast("Recovery Completed",
                              <<NumToken(Cardinality(DOMAIN data)),
                                " videos checked. ",
                                NumToken(Cardinality(
                                   {a \in DOMAIN data : Updated(data[a])})),
                                " updated.">>,
                              "default"))]
    /\ calls' = [calls EXCEPT ![c] = Append(@, Call("getLibraryAssets", Null))]
    /\ Requests(c, store)
    /\ pc' = [pc EXCEPT ![c] = "reload"]
    /\ NoRender
    /\ UNCHANGED <<store, assets, job, snap, videoId, resp, stored, upd, batch>>

\* The progress effect and its timers are left to SpecProgress: no handler
\* reads them.
Next ==
    \/ LoadAssets
    \/ \E c \in Checks, a \in Ids : Invoke(c, a)
    \/ \E c \in Checks, r \in StatusReplies : OnStatus(c, r)
    \/ \E c \in Checks, ok \in BOOLEAN : StoreUpdate(c, ok)
    \/ \E c \in Checks, u \in UpdateReplies : OnUpdate(c, u)
    \/ \E c \in Checks : AfterUpdate(c)
    \/ \E c \in Checks : OnUpdateThrown(c)
    \/ \E c \in Checks, l \in LoadReplies : OnReload(c, l)
    \/ \E c \in Checks, r \in RecoverFailures : OnRecoverFailed(c, r)
    \/ \E c \in Checks :
          \E g \in [BatchJobs(store) -> BatchAnswers] : RecoverPending(c, g)
    \/ \E c \in Checks : OnRecovered(c)

Spec == Init /\ [][Next]_vars

(***************************************************************************)
(* Bulk recovery: handleBulkRecovery, the handler of the "Recover Pending"  *)
(* button.  The per-job loop of the recovery endpoint runs in the backend.  *)
(***************************************************************************)

\* hasPendingHeyGenVideos: the button is rendered only with a video in flight.
HasPendingHeyGenVideos(list) ==
    \E a \in DOMAIN list :
        /\ list[a].source_system = "heygen"
        /\ \/ list[a].asset_url = Pending
           \/ list[a].asset_url = Processing
           \/ StartsWith(list[a].asset_url, PendingPrefix)

\* `${data.length} videos checked. ${updatedCount} videos updated.`
BulkSummary(data) ==
    <<NumToken(Cardinality(DOMAIN data)), " videos checked. ",
      NumToken(Cardinality({a \in DOMAIN data : Updated(data[a])})),
      " videos updated.">>

\* The reply of recoverPending with its result entries (and, for the
\* record, what the provider answered for each job of the batch).
BulkReply(data, g) ==
    [throws |-> FALSE, success |-> TRUE, error |-> Null, data |-> data,
     provider |-> g]

\* The catch block of handleBulkRecovery.
BulkCatch(c, err) ==
    /\ pc' = [pc EXCEPT ![c] = "done"]
    /\ toasts' = [toasts EXCEPT ![c] =
          Append(@, Toast("Failed to Recover Videos",
                          OrElse(err, <<"Could not recover pending videos.">>),
                          "destructive"))]

\* handleBulkRecovery up to its await of recoverPending.
InvokeBulk(c) ==
    /\ pc[c] = "idle"
    /\ \A d \in Checks : d < c => pc[d] # "idle"
    /\ HasPendingHeyGenVideos(assets)
    /\ job' = [job EXCEPT ![c] = "*"]
    /\ toasts' = [toasts EXCEPT ![c] =
          Append(@, Toast("Recovering Pending Videos",
                          <<"Checking all pending HeyGen videos...">>, "default"))]
    /\ calls' = [calls EXCEPT ![c] = Append(@, Call("recoverPending", Null))]
    /\ pc' = [pc EXCEPT ![c] = "bulk"]
    /\ NoRender
    /\ UNCHANGED <<store, assets, snap, videoId, resp, stored, upd, batch, rows>>

\* handleBulkRecovery: recoverPending threw or answered success = false.
OnBulkFailed(c, r) ==
    /\ pc[c] \in {"bulk", "bulked"}
    /\ CanFail(c, r)
    /\ resp' = [resp EXCEPT ![c] = r]
    /\ IF r.throws
       THEN BulkCatch(c, r.error)
       ELSE BulkCatch(c, OrElse(r.error, <<"Bulk recovery failed">>))
    /\ NoRender
    /\ UNCHANGED <<store, assets, job, snap, videoId, calls, stored, upd, batch,
                   rows>>

\* handleBulkRecovery: recoverPending answered with one result per job the
\* batch checked, up to the await of loadAssets.
OnBulkRecovered(c) ==
    /\ pc[c] = "bulked"
    /\ resp' = [resp EXCEPT ![c] = BulkReply(batch[c].data, batch[c].provider)]
    /\ toasts' = [toasts EXCEPT ![c] =
          Append(@, Toast("Bulk Recovery Completed", BulkSummary(batch[c].data),
                          "default"))]
    /\ calls' = [calls EXCEPT ![c] = Append(@, Call("getLibraryAssets", Null))]
    /\ Requests(c, store)
    /\ pc' = [pc EXCEPT ![c] = "bulkreload"]
    /\ NoRender
    /\ UNCHANGED <<store, assets, job, snap, videoId, stored, upd, batch>>

\* loadAssets at the end of handleBulkRecovery, from the answer of
\* getLibraryAssets on.
OnBulkReload(c, l) ==
    /\ pc[c] = "bulkreload"
    /\ Received(c)
    /\ IF l = "rows"
       THEN /\ assets' = rows[c]
            /\ RenderAssets
            /\ calls' = [calls EXCEPT ![c] = Append(@, Call("setAssets", Null))]
            /\ pc' = [pc EXCEPT ![c] = "done"]
            /\ UNCHANGED toasts
       ELSE /\ BulkCatch(c, <<"Failed to load assets">>)
            /\ NoRender
            /\ UNCHANGED <<assets, calls>>
    /\ UNCHANGED <<store, job, snap, videoId, resp, stored, upd, batch>>

NextBulk ==
    \/ LoadAssets
    \/ \E c \in Checks : InvokeBulk(c)
    \/ \E c \in Checks, r \in RecoverFailures : OnBulkFailed(c, r)
    \/ \E c \in Checks :
          \E g \in [BatchJobs(store) -> BatchAnswers] : RecoverPending(c, g)
    \/ \E c \in Checks : OnBulkRecovered(c)
    \/ \E c \in Checks, l \in LoadReplies : OnBulkReload(c, l)

\* A video of another provider, in flight.
ProcessingOther ==
    [status |-> "processing", asset_url |-> Processing,
     description |-> Null, source_system |-> "runwayml"]

\* The stores of Init, one whose only video in flight is not HeyGen's, and
\* one with two jobs in flight that both carry an external id.
InitBulk ==
    /\ store \in InitStores
                 \cup {[a1 |-> ProcessingOther, a2 |-> CompletedPlain],
                        [a1 |-> PendingSentinel, a2 |-> ProcessingDescribed]}
    /\ InitView

SpecBulk == InitBulk /\ [][NextBulk]_vars

(***************************************************************************)
(* The progress simulation: the callback of the interval the progress      *)
(* effect sets, and the clock it reads.                                    *)
(***************************************************************************)

\* The instants at which the model lets the clock be read, in milliseconds
\* after mount (and one millisecond after each: see Tick).
Instants == {0, 5000, 10000, 155000, 305000, 310000}

\* Time passes.
Advance(t) ==
    /\ t > now
    /\ now' = t
    /\ UNCHANGED <<store, assets, pc, job, snap, videoId, resp, calls, toasts,
                   stored, upd, batch, progressStates, timers, armed, effectDue, ticked,
                   closure, rows>>

\* The position of asset a in the list `processing`.
Position(a, processing) ==
    Cardinality({b \in processing : Rank(b) < Rank(a)}) + 1

\* The i-th call of Date.now() in a callback that starts at time t, when the
\* clock passes a millisecond boundary after the crossing-th call (never, if
\* crossing = 0).
Read(i, t, crossing) == IF crossing # 0 /\ i > crossing THEN t + 1 ELSE t

\* The body of processingVideos.forEach for asset a, the j-th of the list:
\* what it leaves in newStates for the asset and whether it set hasUpdates.
ForAsset(prev, a, j, t, crossing) ==
    LET currentProgress == ReadOr(prev, ProgressKey(a), 0)
        startTime == ReadOr(prev, StartTimeKey(a), Read(2 * j - 1, t, crossing))
        elapsedMs == Read(2 * j, t, crossing) - startTime
        newProgress == NewProgress(elapsedMs)
    IN  [startTime |-> startTime,
         setsStart |-> ReadOr(prev, StartTimeKey(a), 0) = 0,
         newProgress |-> newProgress,
         hasUpdates |-> newProgress # currentProgress]

\* newStates at the end of the callback.
NewStates(prev, processing, t, crossing) ==
    LET F(a) == ForAsset(prev, a, Position(a, processing), t, crossing)
        starts == {StartTimeKey(a) : a \in {b \in processing : F(b).setsStart}}
        values == {ProgressKey(a) : a \in {b \in processing : F(b).hasUpdates}}
    IN  [k \in (DOMAIN prev) \cup starts \cup values |->
            IF k \in values THEN F(k[1]).newProgress
            ELSE IF k \in starts THEN F(k[1]).startTime
            ELSE prev[k]]

\* hasUpdates at the end of the callback.
HasUpdates(prev, processing, t, crossing) ==
    \E a \in processing :
        ForAsset(prev, a, Position(a, processing), t, crossing).hasUpdates

\* setProgressStates(prev => ...): newStates if something changed, else prev.
Updater(prev, processing, t, crossing) ==
    IF HasUpdates(prev, processing, t, crossing)
    THEN NewStates(prev, processing, t, crossing)
    ELSE prev

\* A callback that also asks the provider for the status of what it tracks.
TickAlsoPolls ==
    /\ \E c \in Checks :
          calls' = [calls EXCEPT ![c] = Append(@, Call("getStatus", Null))]
    /\ UNCHANGED <<store, assets, pc, job, snap, videoId, resp, toasts, stored, upd, batch,
                   closure, rows>>

\* What the interval callback leaves alone: it calls setProgressStates and
\* nothing else.
TickOnlySetsProgress ==
    UNCHANGED <<store, assets, pc, job, snap, videoId, resp, calls, toasts,
                stored, upd, batch, closure, rows>>

\* The callback of interval h fires.  Date.now() is read twice per asset;
\* the reads of one callback differ by at most a millisecond.
Tick(h, crossing) ==
    /\ h \in timers
    /\ now >= h.dueAt
    /\ crossing < 2 * Cardinality(h.processing)
    /\ crossing # 0 => now \in Instants
    /\ LET n == Cardinality(h.processing)
           last == Read(2 * n, now, crossing)
           next == Updater(progressStates, h.processing, now, crossing)
       IN  /\ now' = last
           /\ progressStates' = next
           /\ timers' = (timers \ {h})
                            \cup {[h EXCEPT !.dueAt = last + IntervalMs]}
           /\ effectDue' = (effectDue \/ next # progressStates)
           /\ UNCHANGED armed
           /\ ticked' =
                 [a \in (DOMAIN ticked) \cup h.processing |->
                    IF a \notin h.processing THEN ticked[a]
                    ELSE LET j == Position(a, h.processing)
                         IN  [first |-> IF a \in DOMAIN ticked
                                        THEN ticked[a].first
                                        ELSE Read(2 * j - 1, now, crossing),
                              last |-> Read(2 * j, now, crossing)]]
    /\ TickOnlySetsProgress

\* The status check that runs beside the timer.
TheCheck == {1}

NextProgress ==
    \/ LoadAssets
    \/ \E t \in Instants : Advance(t)
    \/ ProgressEffect
    \/ \E h \in timers, crossing \in 0 .. 3 : Tick(h, crossing)
    \/ \E c \in TheCheck, a \in Ids : Invoke(c, a)
    \/ \E c \in TheCheck, r \in StatusReplies : OnStatus(c, r)
    \/ \E c \in TheCheck, ok \in BOOLEAN : StoreUpdate(c, ok)
    \/ \E c \in TheCheck, u \in UpdateReplies : OnUpdate(c, u)
    \/ \E c \in TheCheck : AfterUpdate(c)
    \/ \E c \in TheCheck : OnUpdateThrown(c)
    \/ \E c \in TheCheck, l \in LoadReplies : OnReload(c, l)
    \/ \E c \in TheCheck, r \in RecoverFailures : OnRecoverFailed(c, r)
    \/ \E c \in TheCheck :
          \E g \in [BatchJobs(store) -> BatchAnswers] : RecoverPending(c, g)
    \/ \E c \in TheCheck : OnRecovered(c)

SpecProgress == Init /\ [][NextProgress]_vars

(***************************************************************************)
(* The handlers that set `assets` from the list they closed over:          *)
(* handleToggleFavorite and handleDelete.                                  *)
(***************************************************************************)

\* asset.favorited as the card passes it to handleToggleFavorite.
Favorited(asset) == "favorited" \in DOMAIN asset /\ asset.favorited

\* assets.map(asset => asset.id === id ? {...asset, favorited: value} : asset)
\* on the list the handler closed over.
Toggled(captured, id, value) ==
    [a \in DOMAIN captured |->
        IF a = id THEN Spread(captured[a], [favorited |-> value]) ELSE captured[a]]

\* assets.filter(asset => asset.id !== id) on the list the handler closed over.
Filtered(captured, id) == [a \in (DOMAIN captured) \ {id} |-> captured[a]]

\* The store after deleteFromLibrary(id).
StoreDelete(st, id) == [a \in (DOMAIN st) \ {id} |-> st[a]]

\* handleToggleFavorite(id, currentFavorited) up to its await.
InvokeToggle(c, id) ==
    /\ pc[c] = "idle"
    /\ \A d \in Checks : d < c => pc[d] # "idle"
    /\ id \in DOMAIN assets
    /\ job' = [job EXCEPT ![c] = id]
    /\ closure' = [closure EXCEPT ![c] = assets]
    /\ calls' = [calls EXCEPT ![c] =
          Append(@, Call("toggleFavorite",
                         [id |-> id, favorited |-> ~Favorited(assets[id])]))]
    /\ pc' = [pc EXCEPT ![c] = "toggle"]
    /\ UNCHANGED <<store, assets, snap, videoId, resp, toasts, stored, upd, batch,
                   now, progressStates, timers, armed, effectDue, ticked, rows>>

\* handleToggleFavorite from the answer of toggleFavorite on.  The handler
\* has no try: a rejection rejects its promise.
OnToggle(c, ok) ==
    /\ pc[c] = "toggle"
    /\ IF ok
       THEN /\ assets' = Toggled(closure[c], job[c],
                                 calls[c][1].arg.favorited)
            /\ RenderAssets
            /\ calls' = [calls EXCEPT ![c] = Append(@, Call("setAssets", Null))]
            /\ pc' = [pc EXCEPT ![c] = "done"]
       ELSE /\ pc' = [pc EXCEPT ![c] = "thrown"]
            /\ NoRender
            /\ UNCHANGED <<assets, calls>>
    /\ UNCHANGED <<store, job, snap, videoId, resp, toasts, stored, upd, batch, rows>>

\* handleDelete(id), confirmed by the user, up to its await.
InvokeDelete(c, id) ==
    /\ pc[c] = "idle"
    /\ \A d \in Checks : d < c => pc[d] # "idle"
    /\ id \in DOMAIN assets
    /\ job' = [job EXCEPT ![c] = id]
    /\ closure' = [closure EXCEPT ![c] = assets]
    /\ calls' = [calls EXCEPT ![c] = Append(@, Call("deleteFromLibrary", id))]
    /\ pc' = [pc EXCEPT ![c] = "delete"]
    /\ UNCHANGED <<store, assets, snap, videoId, resp, toasts, stored, upd, batch,
                   now, progressStates, timers, armed, effectDue, ticked, rows>>

\* handleDelete from the answer of deleteFromLibrary on.
OnDelete(c, ok) ==
    /\ pc[c] = "delete"
    /\ IF ok
       THEN /\ store' = StoreDelete(store, job[c])
            /\ assets' = Filtered(closure[c], job[c])
            /\ RenderAssets
            /\ calls' = [calls EXCEPT ![c] = Append(@, Call("setAssets", Null))]
            /\ pc' = [pc EXCEPT ![c] = "done"]
       ELSE /\ pc' = [pc EXCEPT ![c] = "thrown"]
            /\ NoRender
            /\ UNCHANGED <<store, assets, calls>>
    /\ UNCHANGED <<job, snap, videoId, resp, toasts, stored, upd, batch, rows>>

\* handleManualRefresh up to the await inside loadAssets.
InvokeManualRefresh(c) ==
    /\ pc[c] = "idle"
    /\ \A d \in Checks : d < c => pc[d] # "idle"
    /\ job' = [job EXCEPT ![c] = "*"]
    /\ toasts' = [toasts EXCEPT ![c] =
          Append(@, Toast("Refreshing Assets",
                          <<"Loading latest asset updates...">>, "default"))]
    /\ calls' = [calls EXCEPT ![c] = Append(@, Call("getLibraryAssets", Null))]
    /\ Requests(c, store)
    /\ pc' = [pc EXCEPT ![c] = "refresh"]
    /\ NoRender
    /\ UNCHANGED <<store, assets, snap, videoId, resp, stored, upd, batch>>

\* handleManualRefresh from the answer of getLibraryAssets on.  Neither
\* loadAssets nor the handler has a try: a rejection rejects its promise.
OnRefreshed(c, l) ==
    /\ pc[c] = "refresh"
    /\ Received(c)
    /\ IF l = "rows"
       THEN /\ assets' = rows[c]
            /\ RenderAssets
            /\ calls' = [calls EXCEPT ![c] = Append(@, Call("setAssets", Null))]
            /\ pc' = [pc EXCEPT ![c] = "done"]
       ELSE /\ pc' = [pc EXCEPT ![c] = "thrown"]
            /\ NoRender
            /\ UNCHANGED <<assets, calls>>
    /\ UNCHANGED <<store, job, snap, videoId, resp, toasts, stored, upd, batch>>

NextView ==
    \/ LoadAssets
    \/ \E c \in Checks, a \in Ids : Invoke(c, a)
    \/ \E c \in Checks, r \in StatusReplies : OnStatus(c, r)
    \/ \E c \in Checks, ok \in BOOLEAN : StoreUpdate(c, ok)
    \/ \E c \in Checks, u \in UpdateReplies : OnUpdate(c, u)
    \/ \E c \in Checks : AfterUpdate(c)
    \/ \E c \in Checks : OnUpdateThrown(c)
    \/ \E c \in Checks, l \in LoadReplies : OnReload(c, l)
    \/ \E c \in Checks, r \in RecoverFailures : OnRecoverFailed(c, r)
    \/ \E c \in Checks :
          \E g \in [BatchJobs(store) -> BatchAnswers] : RecoverPending(c, g)
    \/ \E c \in Checks : OnRecovered(c)
    \/ \E c \in Checks, a \in Ids : InvokeToggle(c, a)
    \/ \E c \in Checks, ok \in BOOLEAN : OnToggle(c, ok)
    \/ \E c \in Checks, a \in Ids : InvokeDelete(c, a)
    \/ \E c \in Checks, ok \in BOOLEAN : OnDelete(c, ok)
    \/ \E c \in Checks : InvokeManualRefresh(c)
    \/ \E c \in Checks, l \in LoadReplies : OnRefreshed(c, l)

SpecView == InitPending /\ [][NextView]_vars

(***************************************************************************)
(* What a video card renders and which of its actions it offers.           *)
(***************************************************************************)

\* The preview of a video card: the progress placeholder, the failure
\* notice, or the <video> player on the asset_url.
Preview(asset) ==
    IF asset.asset_url = Processing \/ asset.asset_url = Pending
    THEN "placeholder"
    ELSE IF asset.asset_url = Failed \/ ~Truthy(asset.asset_url)
         THEN "failed"
         ELSE "player"

\* The disabled attribute of the download button.
DownloadDisabled(asset) ==
    \/ ~Truthy(asset.asset_url)
    \/ asset.asset_url = Processing
    \/ asset.asset_url = Pending

\* handleUpload(asset) of a video: "modal" when it opens the upload modal,
\* else the title of the toast it shows.
HandleUpload(asset) ==
    IF /\ Truthy(asset.asset_url)
       /\ asset.asset_url # Processing
       /\ asset.asset_url # Pending
    THEN "modal"
    ELSE "Upload Not Available"

(***************************************************************************)
(* Calls that are never answered.  A handler awaits the promise of its     *)
(* request; nothing in the handler settles that promise (no timeout, no    *)
(* abort, no race), so when no answer arrives the handler has no next      *)
(* step.                                                                   *)
(***************************************************************************)

\* The awaits on a provider call: getStatus and recoverPending in
\* handleRefreshVideo, recoverPending in handleBulkRecovery.
AwaitsProvider(c) == pc[c] \in {"status", "recover", "bulk"}

\* The request invocation c awaits will never be answered.
NeverAnswered(c) ==
    /\ AwaitsProvider(c)
    /\ pc' = [pc EXCEPT ![c] = "hung"]
    /\ NoRender
    /\ UNCHANGED <<store, assets, job, snap, videoId, resp, calls, toasts, stored, upd, batch,
                   rows>>

\* A step of invocation c: the answer of the request it awaits arrives and
\* the handler runs on to its next await.
Resume(c) ==
    \/ \E r \in StatusReplies : OnStatus(c, r)
    \/ \E ok \in BOOLEAN : StoreUpdate(c, ok)
    \/ \E u \in UpdateReplies : OnUpdate(c, u)
    \/ AfterUpdate(c)
    \/ OnUpdateThrown(c)
    \/ \E l \in LoadReplies : OnReload(c, l)
    \/ \E r \in RecoverFailures : OnRecoverFailed(c, r)
    \/ \E g \in [BatchJobs(store) -> BatchAnswers] : RecoverPending(c, g)
    \/ OnRecovered(c)
    \/ \E r \in RecoverFailures : OnBulkFailed(c, r)
    \/ OnBulkRecovered(c)
    \/ \E l \in LoadReplies : OnBulkReload(c, l)

NextHang ==
    \/ LoadAssets
    \/ \E c \in Checks, a \in Ids : Invoke(c, a)
    \/ \E c \in Checks : InvokeBulk(c)
    \/ \E c \in Checks : Resume(c)
    \/ \E c \in Checks : NeverAnswered(c)

\* Every request that is answered at all is answered eventually, and the
\* JS runtime then resumes the handler.
SpecHang ==
    InitPending /\ [][NextHang]_vars /\ \A c \in Checks : WF_vars(Resume(c))

(***************************************************************************)
(* Vocabulary of the properties.                                           *)
(***************************************************************************)

\* Invocation c issued a request to api (or called the state setter).
HasCall(c, api) == \E i \in 1 .. Len(calls[c]) : calls[c][i].api = api

NumCalls(c, api) == Cardinality({i \in 1 .. Len(calls[c]) : calls[c][i].api = api})

\* The updates object of invocation c's updateAsset request.
UpdateArg(c) ==
    calls[c][CHOOSE i \in 1 .. Len(calls[c]) : calls[c][i].api = "updateAsset"].arg

HasToast(c, title) == \E i \in 1 .. Len(toasts[c]) : toasts[c][i].title = title

LastToast(c) == toasts[c][Len(toasts[c])]

\* Invocation c found its asset in the list.
Found(c) == pc[c] # "idle" /\ snap[c] # NoAsset

\* The handler's promise settled: resolved ("done") or rejected ("thrown").
Settled(c) == pc[c] \in {"done", "thrown"}

\* The store accepted an update of invocation c.
Wrote(c) == stored[c] # NoAsset

\* Invocation c received the provider's status reply.
Answered(c) == HasCall(c, "getStatus") /\ pc[c] # "status"

(***************************************************************************)
(* C1.  Idempotence on terminal jobs: a check of a job that is already     *)
(* Completed or Failed contacts neither the per-video status endpoint nor  *)
(* the bulk-recovery endpoint and issues no update of the record.          *)
(* The handler has no terminal-state guard: TLC refutes this.              *)
(***************************************************************************)
C1_TerminalCheckIsNoOp ==
    \A c \in Checks :
        (Found(c) /\ IsTerminal(snap[c].status))
            => /\ ~HasCall(c, "getStatus")
               /\ ~HasCall(c, "recoverPending")
               /\ ~HasCall(c, "updateAsset")
               /\ ~Wrote(c)

(***************************************************************************)
(* C2.  At most one effective transition under concurrency: of two checks  *)
(* of the same job that both read it in flight, at most one has an update  *)
(* accepted by the store.  Nothing stops the second writer: TLC refutes    *)
(* this.                                                                   *)
(***************************************************************************)
C2_AtMostOneEffectiveTransition ==
    \A c, d \in Checks :
        (/\ c # d
         /\ Found(c) /\ Found(d)
         /\ job[c] = job[d]
         /\ IsInFlight(snap[c].status) /\ IsInFlight(snap[d].status))
            => ~(Wrote(c) /\ Wrote(d))

(***************************************************************************)
(* C3.  A stored record has a result location if and only if its state is  *)
(* Completed.  A Failed write keeps the location of a record that was      *)
(* Completed before (possible because of C1 and C2): TLC refutes this.     *)
(* An asset_url of the form 'pending_<id>' holds the external job id, not   *)
(* a result.                                                               *)
(***************************************************************************)
HasResultLocation(rec) ==
    ResultLocation(rec) # Null /\ ~StartsWith(rec.asset_url, PendingPrefix)

C3_ResultLocationIffCompleted ==
    \A a \in Ids :
        HasResultLocation(store[a]) <=> (store[a].status = "completed")

\* Invocation c is a check of an in-flight job whose status request the
\* provider answered successfully.
AnsweredInFlight(c) ==
    /\ StatusOk(resp[c])
    /\ Answered(c)
    /\ Found(c)
    /\ IsInFlight(snap[c].status)

\* updateAsset received the reply to the update request of invocation c.
UpdateReplied(c) == upd[c] # NoUpdateReply

\* updateAsset resolved for invocation c, and the handler resumed after it.
ResumedAfterUpdate(c) ==
    UpdateReplied(c) /\ UpdateAccepted(upd[c]) /\ pc[c] # "resolved"

\* The provider reported completed with a result URL for the in-flight job
\* of invocation c, whose external id was extracted.
ReportedCompleted(c) ==
    /\ AnsweredInFlight(c)
    /\ Truthy(videoId[c])
    /\ resp[c].status = "completed"
    /\ Truthy(resp[c].videoUrl)

(***************************************************************************)
(* C4.  Completion transition: when the provider reports completed with a  *)
(* result URL for an in-flight job with an extractable id, exactly one     *)
(* store update is issued, {url: that URL, status: completed}, and the     *)
(* outcome of the check reports previousState = the in-flight state,       *)
(* newState = Completed, updated = true.  Read in the claim's favour: for  *)
(* a check whose update request answered success and that has finished.    *)
(* The handler resolves without a value: TLC refutes this.                 *)
(***************************************************************************)
C4_OutcomeReported ==
    \A c \in Checks :
        (ReportedCompleted(c) /\ ResumedAfterUpdate(c) /\ pc[c] = "done")
            => /\ NumCalls(c, "updateAsset") = 1
               /\ UpdateArg(c) = [url |-> resp[c].videoUrl, status |-> "completed"]
               /\ ReturnValue(c) = [previousState |-> snap[c].status,
                                    newState |-> "completed",
                                    updated |-> TRUE]

\* The provider reported failed for the in-flight job of invocation c.
ReportedFailed(c) == AnsweredInFlight(c) /\ resp[c].status = "failed"

(***************************************************************************)
(* C5 as stated.  Failure transition: the update written for a failed job  *)
(* sets the record's errorMessage to the provider's message, or to a       *)
(* default message.  The update carries only the status: TLC refutes this. *)
(***************************************************************************)
C5_FailedWritesErrorMessage ==
    \A c \in Checks :
        (ReportedFailed(c) /\ Wrote(c))
            => /\ "errorMessage" \in DOMAIN UpdateArg(c)
               /\ UpdateArg(c).errorMessage =
                     OrElse(resp[c].errorMessage, <<"Video generation failed.">>)

(***************************************************************************)
(* C5 as amended.  Failure transition: when the provider reports failed    *)
(* for an in-flight job, the check issues exactly one store update         *)
(* request, which carries the status Failed and nothing else; the          *)
(* provider's message, or the default message when the provider gives      *)
(* none, is the text of the "Video Failed" toast, shown exactly when the   *)
(* update request has answered success and the handler has resumed after   *)
(* updateAsset (it is not written to the record).                          *)
(***************************************************************************)
C5_FailureTransition ==
    \A c \in Checks :
        ReportedFailed(c)
            => /\ NumCalls(c, "updateAsset") = 1
               /\ UpdateArg(c) = [status |-> "failed"]
               /\ HasToast(c, "Video Failed") <=> ResumedAfterUpdate(c)
               /\ \A i \in 1 .. Len(toasts[c]) :
                     toasts[c][i].title = "Video Failed"
                        => toasts[c][i] =
                              Toast("Video Failed",
                                    OrElse(resp[c].errorMessage,
                                           <<"Video generation failed.">>),
                                    "destructive")
               /\ ~HasToast(c, "Video Ready")

\* A failure without a provider message was written and reported.
C5_Witness ==
    \E c \in Checks :
        /\ ReportedFailed(c)
        /\ resp[c].errorMessage = Null
        /\ ResumedAfterUpdate(c)
        /\ HasToast(c, "Video Failed")
        /\ Wrote(c)
        /\ store[job[c]].status = "failed"
        /\ pc[c] = "done"

\* The provider reported the in-flight job of invocation c still in progress.
ReportedInProgress(c) == AnsweredInFlight(c) /\ resp[c].status = "processing"

(***************************************************************************)
(* C6 as stated.  Still in progress: a check that found the job Pending    *)
(* writes the state Processing.  The branch writes nothing: TLC refutes    *)
(* this.                                                                   *)
(***************************************************************************)
C6_PendingMovesToProcessing ==
    \A c \in Checks :
        (ReportedInProgress(c) /\ snap[c].status = "pending" /\ Settled(c))
            => /\ HasCall(c, "updateAsset")
               /\ UpdateArg(c).status = "processing"

(***************************************************************************)
(* C6 as amended.  Still in progress: when the provider reports the job    *)
(* still in progress the check performs no write, whether the record is    *)
(* Pending or Processing; it shows "Still Processing" and reloads the      *)
(* asset list; no progress data is persisted.                              *)
(***************************************************************************)
C6_StillInProgressWritesNothing ==
    \A c \in Checks :
        ReportedInProgress(c)
            => /\ ~HasCall(c, "updateAsset")
               /\ ~Wrote(c)
               /\ HasToast(c, "Still Processing")
               /\ calls[c][2] = Call("getLibraryAssets", Null)

\* A Pending job was reported in progress, and the check finished with the
\* record still Pending.
C6_Witness ==
    \E c \in Checks :
        /\ ReportedInProgress(c)
        /\ snap[c].status = "pending"
        /\ pc[c] = "done"
        /\ store[job[c]].status = "pending"

(***************************************************************************)
(* C7.  Transient provider failure: when the status request of a check     *)
(* fails (it throws, as on a network error or a 503, or the reply has      *)
(* success = false), the handler resolves with the destructive toast       *)
(* "Failed to Get Video Status" as its outcome, having issued no store     *)
(* update, no state-setter call and no reload: its only request is the     *)
(* status request, so the stored record and the asset list are as they     *)
(* were, and no exception escapes.                                         *)
(***************************************************************************)
C7_TransientFailureNoWrite ==
    \A c \in Checks :
        (Found(c) /\ Answered(c) /\ ~StatusOk(resp[c]))
            => /\ pc[c] = "done"
               /\ calls[c] = <<Call("getStatus", videoId[c])>>
               /\ ~Wrote(c)
               /\ Len(toasts[c]) = 2
               /\ LastToast(c).title = "Failed to Get Video Status"
               /\ LastToast(c).variant = "destructive"

\* A 503 on the check of a Pending job, the record still Pending afterwards.
C7_Witness ==
    \E c \in Checks :
        /\ Found(c) /\ Answered(c)
        /\ resp[c].throws
        /\ snap[c].status = "pending"
        /\ store[job[c]] = snap[c]
        /\ assets[job[c]] = snap[c]
        /\ pc[c] = "done"

\* The claim's condition for an asset without an extractable external id:
\* no sentinel prefix, or nothing after it; and no video_id token.
NoExtractableId(asset) ==
    /\ \/ ~StartsWith(asset.asset_url, PendingPrefix)
       \/ Len(asset.asset_url) = Len(PendingPrefix)
    /\ \/ ~Truthy(asset.description)
       \/ MatchVideoId(asset.description) = Null

(***************************************************************************)
(* C8.  Unresolvable job: a check of a job without an extractable external *)
(* id triggers no operation that can modify the record: it issues no       *)
(* bulk-recovery request, no store update and no status request.  The      *)
(* handler calls the bulk-recovery endpoint: TLC refutes this.             *)
(***************************************************************************)
C8_UnresolvableTriggersNothing ==
    \A c \in Checks :
        (Found(c) /\ NoExtractableId(snap[c]))
            => /\ ~HasCall(c, "recoverPending")
               /\ ~HasCall(c, "updateAsset")
               /\ ~HasCall(c, "getStatus")

\* The update request of invocation c was rejected: it threw or answered
\* success = false.
UpdateRejected(c) == UpdateReplied(c) /\ (upd[c].throws \/ ~upd[c].success)

(***************************************************************************)
(* C9.  Store write failure: when the update request of a check is         *)
(* rejected (it throws or answers success = false), updateAsset throws     *)
(* without calling the state setter of the asset list, and the handler's   *)
(* catch block resolves the handler with the destructive toast "Failed to  *)
(* Get Video Status" carrying the error's message: no step of the check    *)
(* from the rejection on changes the local list, no reload is requested,   *)
(* neither "Video Ready" nor "Video Failed" is shown, and no exception     *)
(* escapes.                                                                *)
(***************************************************************************)
C9_StoreRejectionSurfaced ==
    /\ [](\A c \in Checks :
            UpdateRejected(c)
               => /\ pc[c] \in {"rejected", "done"}
                  /\ pc[c] = "done" =>
                        LastToast(c) =
                           Toast("Failed to Get Video Status",
                                 UpdateError(upd[c]), "destructive")
                  /\ ~HasCall(c, "setAssets")
                  /\ ~HasCall(c, "getLibraryAssets")
                  /\ ~HasToast(c, "Video Ready")
                  /\ ~HasToast(c, "Video Failed"))
    /\ [][\A c \in Checks :
            (pc'[c] # pc[c] /\ UpdateRejected(c)')
               => UNCHANGED <<assets, rows>>]_vars

\* An update answered success = false, the asset list as the check found it.
C9_Witness ==
    \E c \in Checks :
        /\ UpdateRejected(c)
        /\ ~upd[c].throws
        /\ LastToast(c).description = <<"Failed to update asset">>
        /\ assets[job[c]] = snap[c]
        /\ pc[c] = "done"

\* The provider reported completed without a usable result location.
ReportedMalformedSuccess(c) ==
    /\ AnsweredInFlight(c)
    /\ resp[c].status = "completed"
    /\ ~Truthy(resp[c].videoUrl)

(***************************************************************************)
(* C10 as stated.  Malformed success: completed without a result location  *)
(* moves the job to Failed.  The handler takes its still-processing        *)
(* branch: TLC refutes this.                                               *)
(***************************************************************************)
C10_MalformedSuccessFails ==
    \A c \in Checks :
        (ReportedMalformedSuccess(c) /\ Settled(c))
            => /\ HasCall(c, "updateAsset")
               /\ UpdateArg(c).status = "failed"
               /\ ~HasToast(c, "Still Processing")

(***************************************************************************)
(* C10 as amended.  Malformed success: when the provider reports completed *)
(* without a usable result location, the check treats the job as still in  *)
(* flight: it shows "Still Processing", issues no store update (the job is *)
(* not moved to Failed) and reloads the asset list.                        *)
(***************************************************************************)
C10_MalformedSuccessStillInFlight ==
    \A c \in Checks :
        ReportedMalformedSuccess(c)
            => /\ ~HasCall(c, "updateAsset")
               /\ ~Wrote(c)
               /\ HasToast(c, "Still Processing")
               /\ ~HasToast(c, "Video Failed")
               /\ ~HasToast(c, "Video Ready")
               /\ HasCall(c, "getLibraryAssets")

\* A malformed success on a Pending job, which is still Pending afterwards.
C10_Witness ==
    \E c \in Checks :
        /\ ReportedMalformedSuccess(c)
        /\ snap[c].status = "pending"
        /\ store[job[c]].status = "pending"
        /\ pc[c] = "done"

(***************************************************************************)
(* Bulk recovery.                                                          *)
(***************************************************************************)

\* Invocation c is a bulk recovery that recoverPending answered with results.
BulkAnswered(c) ==
    /\ job[c] = "*"
    /\ pc[c] \in {"bulkreload", "done", "thrown"}
    /\ resp[c].success

\* The step in which the recovery endpoint runs the batch of invocation c.
BatchRuns(c) == ~batch[c].ran /\ batch'[c].ran

\* The step in which invocation c receives the results of the batch.
BulkResultsArrive(c) == pc[c] = "bulked" /\ pc'[c] = "bulkreload"

(***************************************************************************)
(* C11.  Bulk recovery partial failure: whatever subset of the jobs of the *)
(* batch has its provider status call fail transiently, the batch answers  *)
(* with one result per non-terminal job that carries an external id;       *)
(* exactly the failing jobs are retryable and their records are unchanged, *)
(* the others get the transition of the single-job logic (Completed,       *)
(* Failed, Processing for a Pending job still in progress, else no         *)
(* change), and no other record changes; handleBulkRecovery reports        *)
(* "N videos checked. M videos updated." with N the number of jobs of the  *)
(* batch and M the number of records the batch changed, and its promise    *)
(* never rejects.                                                          *)
(***************************************************************************)
C11_BulkPartialFailure ==
    /\ [](\A c \in Checks : job[c] = "*" => pc[c] # "thrown")
    /\ [][\A c \in Checks :
            BatchRuns(c) =>
               LET data == batch'[c].data
                   g == batch'[c].provider
                   changed == {a \in Ids : store'[a] # store[a]}
               IN  /\ DOMAIN data =
                         {a \in Ids : /\ store[a].status \in {"pending", "processing"}
                                      /\ store[a].source_system = "heygen"
                                      /\ Truthy(ExtractVideoId(store[a]))}
                   /\ \A a \in DOMAIN data :
                         /\ (data[a].outcome = "retryable") <=> (g[a] = "throws")
                         /\ g[a] = "throws" => store'[a] = store[a]
                         /\ g[a] = "completed" => store'[a].status = "completed"
                         /\ g[a] = "failed" => store'[a].status = "failed"
                         /\ g[a] = "processing" =>
                               /\ store'[a].status = "processing"
                               /\ store'[a].asset_url = store[a].asset_url
                   /\ changed = {a \in DOMAIN data : data[a].updated}]_vars
    /\ [][\A c \in Checks :
            BulkResultsArrive(c) =>
               LET data == batch[c].data
               IN  /\ batch[c].ran
                   /\ UNCHANGED store
                   /\ LastToast(c)' =
                         Toast("Bulk Recovery Completed",
                               <<NumToken(Cardinality(DOMAIN data)),
                                 " videos checked. ",
                                 NumToken(Cardinality(
                                    {a \in DOMAIN data : data[a].updated})),
                                 " videos updated.">>,
                               "default")]_vars

\* A batch of two jobs finished: the status call of the first failed
\* transiently and its record is untouched, the second was completed.
C11_Witness ==
    \E c \in Checks :
        /\ BulkAnswered(c)
        /\ pc[c] = "done"
        /\ DOMAIN resp[c].data = {"a1", "a2"}
        /\ resp[c].provider["a1"] = "throws"
        /\ resp[c].data["a1"].outcome = "retryable"
        /\ resp[c].provider["a2"] = "completed"
        /\ store["a1"] = PendingSentinel
        /\ store["a2"].status = "completed"
        /\ store["a2"].description = UpperId
        /\ LastToast(c).description =
              <<"2", " videos checked. ", "1", " videos updated.">>

(***************************************************************************)
(* C12.  Termination: every invocation of the single-job check and of bulk *)
(* recovery eventually finishes (its promise settles), also when a         *)
(* provider call is never answered.  The handlers await without a timeout: *)
(* TLC refutes this with an invocation that waits forever.                 *)
(***************************************************************************)
C12_EveryInvocationFinishes ==
    \A c \in Checks : (pc[c] # "idle") ~> Settled(c)

(***************************************************************************)
(* The progress simulation.                                                *)
(***************************************************************************)

\* The progress rendered for asset a: progressStates[asset.id] || 0, as the
\* whole number percent * 300 * 1000.
ProgressOf(a) == ReadOr(progressStates, ProgressKey(a), 0)

\* A start time is recorded for asset a.
StartRecorded(a) == StartTimeKey(a) \in DOMAIN progressStates

\* Milliseconds from the recorded start of asset a to the clock read of the
\* latest tick that handled it.
ElapsedAtLastTick(a) == ticked[a].last - progressStates[StartTimeKey(a)]

(***************************************************************************)
(* C13.  Progress estimator shape: after every tick the progress recorded  *)
(* for an asset the tick handled is min(92, elapsed / 300 * 92) percent,   *)
(* elapsed being the seconds from the asset's recorded start to the tick   *)
(* (and 0 while no start is recorded); so it is 0 at elapsed 0, never      *)
(* above 92, exactly 92 from 300 s on; and no step ever lowers the         *)
(* recorded progress of an asset.  Progress p percent is the number        *)
(* p * 300000, elapsed is in milliseconds.                                 *)
(***************************************************************************)
C13_EstimatorShape ==
    /\ [](\A a \in DOMAIN ticked :
            /\ ProgressOf(a) <= 92 * 300000
            /\ IF StartRecorded(a)
               THEN /\ ProgressOf(a) =
                          Min(92 * 300000, ElapsedAtLastTick(a) * 92)
                    /\ ElapsedAtLastTick(a) = 0 => ProgressOf(a) = 0
                    /\ ElapsedAtLastTick(a) >= 300 * 1000
                          => ProgressOf(a) = 92 * 300000
               ELSE ProgressOf(a) = 0)
    /\ [][\A a \in Ids : ProgressOf(a)' >= ProgressOf(a)]_vars

\* An asset was ticked 300 s or more after its recorded start and shows 92.
C13_Witness ==
    \E a \in DOMAIN ticked :
        /\ StartRecorded(a)
        /\ ElapsedAtLastTick(a) >= 300000
        /\ ProgressOf(a) = 92 * 300000

\* The submission time (created_at) of the jobs of the initial store: they
\* exist when the component mounts, at clock 0.
SubmittedAt(a) == 0

(***************************************************************************)
(* C14.  Progress is a function of the time since submission only: the     *)
(* progress shown for an asset after a tick at time t is the estimate for  *)
(* t - submittedAt, whenever the viewer started observing.  The callback   *)
(* measures from the start time it keeps in progressStates, which is the   *)
(* time of a tick of this component instance: TLC refutes this.            *)
(***************************************************************************)
C14_ProgressFromSubmission ==
    \A a \in DOMAIN ticked :
        ProgressOf(a) =
            Min(92 * 300000, (ticked[a].last - SubmittedAt(a)) * 92)

\* The step is a run of the interval callback.
IsTick == ticked' # ticked \/ progressStates' # progressStates

\* The step is a step of an explicitly invoked handler.
IsHandlerStep == \E c \in Checks : pc'[c] # pc[c]

(***************************************************************************)
(* C15.  The progress timer tick affects presentation state only: a tick   *)
(* changes nothing but the progress map (and the timer itself): no stored  *)
(* record, no local asset, no handler state, and it issues no request;     *)
(* every request and every change of a stored record happens in a step of  *)
(* a handler the user invoked, and such a step leaves the progress map     *)
(* alone.                                                                  *)
(***************************************************************************)
C15_TickIsPresentationOnly ==
    [][/\ IsTick =>
             UNCHANGED <<store, assets, pc, job, snap, videoId, resp, calls,
                         toasts, stored>>
       /\ (calls' # calls \/ store' # store) =>
             (IsHandlerStep /\ UNCHANGED progressStates)]_vars

\* The timer has ticked an asset up to its target while no handler was ever
\* invoked: no request was issued and the records are as loaded.
C15_Witness ==
    /\ \E a \in DOMAIN ticked : ProgressOf(a) = 92 * 300000
    /\ \A c \in Checks : pc[c] = "idle" /\ calls[c] = << >>
    /\ assets = store
    /\ store \in InitStores

\* No favourite, delete or check handler is between its call and its end.
AllHandlersFinished == \A d \in Checks : pc[d] \in {"idle", "done", "thrown"}

\* C16: once all handlers have finished, every job for which a status check
\* recorded a terminal state, and which is still listed, is shown in the
\* local list in that terminal state: no handler that closed over the list
\* before the check has put the earlier in-flight snapshot back.
C16_NoStaleTerminalState ==
    AllHandlersFinished =>
        \A c \in Checks :
            ( /\ Wrote(c)
              /\ job[c] \in DOMAIN store
              /\ job[c] \in DOMAIN assets
              /\ IsTerminal(store[job[c]].status) )
            => assets[job[c]].status = store[job[c]].status

\* C17: in every state of the local list, an asset whose local status is
\* 'completed' has a result URL as its asset_url and is not classified as in
\* flight by the progress tracker.
C17_CompletedHasResultUrl ==
    \A a \in DOMAIN assets :
        assets[a].status = "completed" =>
            /\ ~IsInFlightUrl(assets[a].asset_url)
            /\ ResultLocation(assets[a]) = assets[a].asset_url
            /\ a \notin ProcessingVideos(assets)

\* C18: an asset that is in flight and that the timer has handled has its
\* start time recorded, the recorded start is the clock read of its first
\* tick, and once 300 s have passed from that first tick to its latest tick
\* its progress is the cap of 92 percent.
C18_StartKeptFromFirstTick ==
    \A a \in (DOMAIN ticked) \cap ProcessingVideos(assets) :
        /\ StartRecorded(a)
        /\ progressStates[StartTimeKey(a)] = ticked[a].first
        /\ ticked[a].last - ticked[a].first >= 300000
              => ProgressOf(a) = 92 * 300000

\* C19: every listed asset that the progress tracker and the pending-video
\* check classify as in flight is shown with the progress placeholder, has
\* its download button disabled, and is refused by handleUpload.
C19_OneInFlightPredicate ==
    \A a \in ProcessingVideos(assets) :
        /\ HasPendingHeyGenVideos(assets)
        /\ Preview(assets[a]) = "placeholder"
        /\ DownloadDisabled(assets[a])
        /\ HandleUpload(assets[a]) # "modal"

\* C20 as stated: in every state at most one progress timer is set, and a
\* timer is set only while the local list contains an asset the tracker
\* counts as in flight: once none remains, no timer is set.  The interval
\* is cleared by the effect that runs after the render, not by the change of
\* the list: TLC refutes this.
C20_TimerOnlyWhileInFlight ==
    /\ Cardinality(timers) <= 1
    /\ timers # {} => ProcessingVideos(assets) # {}

\* The step is a run of the progress effect.
IsEffectRun == effectDue /\ ~effectDue'

\* C20 as amended: in every state at most one progress timer is set; once
\* the progress effect has run for the latest change of the list or of the
\* progress map, a timer is set exactly while the list contains an asset the
\* tracker counts as in flight, and it is the one created for that list;
\* every run of the effect leaves no timer of before the run: the one that
\* remains was created by the run.  Between a change and the run of the
\* effect the previous timer stays set and only the effect changes the set
\* of timers' handles.
C20_TimerLifecycle ==
    /\ [](/\ Cardinality(timers) <= 1
          /\ ~effectDue =>
                /\ (timers # {}) <=> (ProcessingVideos(assets) # {})
                /\ \A h \in timers : h.processing = ProcessingVideos(assets))
    /\ [][/\ IsEffectRun =>
                \A h \in timers' : /\ h.setAt = now
                                    /\ h.dueAt = now + IntervalMs
                                    /\ h.processing = ProcessingVideos(assets)
          /\ ~IsEffectRun =>
                {Handle(h) : h \in timers'} = {Handle(h) : h \in timers}]_vars

\* A timer ran, and then the last in-flight asset of the list became
\* terminal: the timer stayed set until the effect ran, and is cleared now.
C20_Witness ==
    /\ ticked # << >>
    /\ assets # << >>
    /\ ProcessingVideos(assets) = {}
    /\ ~effectDue
    /\ timers = {}

====
